---- MODULE Spec2Model ----
(***************************************************************************)
(* Paste service (app.py): handle_submit builds a paste record and writes  *)
(* it to a GCS bucket under "<id>.json"; view_paste reads it back through  *)
(* get_from_gcs, which enforces the expiry at read time.                   *)
(*                                                                         *)
(* Python values are tagged records: a str is [t |-> "str", s |-> chars],  *)
(* with chars a sequence of one-character strings, a dict is               *)
(* [t |-> "dict", items |-> function], None is [t |-> "None"].  A naive    *)
(* datetime is a whole number of days, a timedelta too.                    *)
(***************************************************************************)
EXTENDS Integers, Sequences, FiniteSets, TLC

VARIABLES
    now,             \* datetime.now(), in days
    ticks,           \* number of clock advances so far (bounded by MaxTicks)
    store,           \* the bucket: paste id -> text of "<id>.json", or Absent
    active_editors,  \* client ids that have an editor (app.py:23)
    sub,             \* the last run of handle_submit and its effects on the UI
    issued,          \* the ids that handle_submit has navigated a client to
    view,            \* the last run of view_paste
    seen,            \* per paste id: what the viewers have been shown so far
    last             \* the step taken last; for a handle_submit, with its inputs

vars == <<now, ticks, store, active_editors, sub, issued, view, seen, last>>

----------------------------------------------------------------------------
(* Bounds and input sets *)

MaxTicks == 1

Clients == {"c1", "c2"}

\* editor.value as typed by the user: empty, blanks only, text with blanks around
CodeInputs == { <<>>, <<" ">>, <<" ", "x", " ">> }

Whitespace == {" ", "\t", "\n"}

\* uuid.uuid4() rendered by str(): the first 8 characters, then the rest
Uuids == { [head |-> <<"a", "1">>, tail |-> <<"7">>],
           [head |-> <<"a", "1">>, tail |-> <<"9">>],
           [head |-> <<"b", "2">>, tail |-> <<"7">>] }

\* google.cloud exceptions of a failed request (transport, auth, quota)
StoreFaults == {"ServiceUnavailable"}

NoFault == "none"

\* a step that is no handle_submit
Step(op) == [op |-> op, c |-> "none", code |-> <<>>, lang |-> <<>>]

----------------------------------------------------------------------------
(* Program constants *)

RETENTION_DAYS == 30

LANG_OPTIONS == { <<"s", "q", "l">>, <<"p", "y", "t", "h", "o", "n">>,
                  <<"y", "a", "m", "l">>,
                  <<"j", "a", "v", "a", "s", "c", "r", "i", "p", "t">>,
                  <<"t", "e", "x", "t">> }

\* lang_select.value: the default 'sql', and a label outside LANG_OPTIONS
\* (handle_submit stores the value without looking it up)
LangInputs == { <<"s", "q", "l">>, <<"g", "o">> }

\* the days that pass between two requests: the retention window exactly, or
\* one day more
TickDays == {RETENTION_DAYS, RETENTION_DAYS + 1}

----------------------------------------------------------------------------
(* Python values *)

None == [t |-> "None"]

PyStr(s) == [t |-> "str", s |-> s]

PyDict(items) == [t |-> "dict", items |-> items]

Absent == [t |-> "absent"]

\* str.strip(): drop leading and trailing whitespace
RECURSIVE lstrip(_)
lstrip(s) ==
    IF s = <<>> THEN <<>>
    ELSE IF Head(s) \in Whitespace THEN lstrip(Tail(s)) ELSE s

RECURSIVE rstrip(_)
rstrip(s) ==
    IF s = <<>> THEN <<>>
    ELSE IF s[Len(s)] \in Whitespace THEN rstrip(SubSeq(s, 1, Len(s) - 1)) ELSE s

strip(s) == rstrip(lstrip(s))

\* str(uuid.uuid4())[:8]
ShortId(u) == u.head

Ids == { ShortId(u) : u \in Uuids }

NoId == <<>>

----------------------------------------------------------------------------
(* datetime.isoformat / datetime.fromisoformat, on day numbers *)

Digits == <<"0", "1", "2", "3", "4", "5", "6", "7", "8", "9">>

DigitChars == { Digits[i] : i \in 1..10 }

DigitVal(c) == (CHOOSE i \in 1..10 : Digits[i] = c) - 1

RECURSIVE isoformat(_)
isoformat(d) ==
    IF d < 10 THEN << Digits[d + 1] >>
    ELSE Append(isoformat(d \div 10), Digits[(d % 10) + 1])

IsIso(s) == Len(s) > 0 /\ \A i \in 1..Len(s) : s[i] \in DigitChars

RECURSIVE ParseDays(_)
ParseDays(s) ==
    IF s = <<>> THEN 0
    ELSE 10 * ParseDays(SubSeq(s, 1, Len(s) - 1)) + DigitVal(s[Len(s)])

\* [exc, val]: the exception fromisoformat raises, or the datetime it returns
fromisoformat(v) ==
    IF v.t # "str" THEN [exc |-> "TypeError", val |-> 0]
    ELSE IF ~IsIso(v.s) THEN [exc |-> "ValueError", val |-> 0]
    ELSE [exc |-> NoFault, val |-> ParseDays(v.s)]

----------------------------------------------------------------------------
(* json.dumps / json.loads.  A JSON text is garbage, or a value: an object *)
(* with its members in order, a string, a number, an array.                *)

JsonValue(v) ==
    IF v.t = "str" THEN [t |-> "string", s |-> v.s]
    ELSE [t |-> "number", n |-> v.n]

PyValue(j) ==
    IF j.t = "string" THEN PyStr(j.s)
    ELSE IF j.t = "number" THEN [t |-> "int", n |-> j.n]
    ELSE [t |-> "list"]

\* the payload of handle_submit has the keys id, code, lang, expires_at, in
\* this order
json_dumps(data) ==
    [t |-> "object",
     members |-> << [k |-> "id", v |-> JsonValue(data.items["id"])],
                    [k |-> "code", v |-> JsonValue(data.items["code"])],
                    [k |-> "lang", v |-> JsonValue(data.items["lang"])],
                    [k |-> "expires_at", v |-> JsonValue(data.items["expires_at"])] >>]

\* [exc, val]: JSONDecodeError on a text that is not JSON, else the value
json_loads(text) ==
    IF text.t = "garbage" THEN [exc |-> "JSONDecodeError", val |-> None]
    ELSE IF text.t = "object" THEN
        LET ms == text.members
            keys == { ms[i].k : i \in 1..Len(ms) }
            lastOf(k) == CHOOSE i \in 1..Len(ms) :
                          ms[i].k = k /\ \A j \in 1..Len(ms) : ms[j].k = k => j <= i
        IN [exc |-> NoFault,
            val |-> PyDict([k \in keys |-> PyValue(ms[lastOf(k)].v)])]
    ELSE [exc |-> NoFault, val |-> PyValue(text)]

----------------------------------------------------------------------------
(* The bucket *)

\* exception classes the model raises; every one derives from Exception
ExceptionClasses ==
    StoreFaults \cup {"NotFound", "JSONDecodeError", "TypeError", "KeyError", "ValueError"}

\* blob.download_as_text(): the request fails, or the object is missing, or
\* its text is returned
download_as_text(k, fault) ==
    IF fault # NoFault THEN [exc |-> fault, val |-> Absent]
    ELSE IF store[k] = Absent THEN [exc |-> "NotFound", val |-> Absent]
    ELSE [exc |-> NoFault, val |-> store[k]]

\* data['expires_at']
GetExpiresAt(data) ==
    IF data.t # "dict" THEN [exc |-> "TypeError", val |-> None]
    ELSE IF "expires_at" \notin DOMAIN data.items THEN [exc |-> "KeyError", val |-> None]
    ELSE [exc |-> NoFault, val |-> data.items["expires_at"]]

\* the comparison as ">=": expired from the instant of expires_at on
ExpiredStrict(t, expires_at) == t >= expires_at

\* datetime.now() > expires_at
Expired(t, expires_at) == t > expires_at

\* the handler without its "except Exception" clause
CaughtNotFoundOnly(e) == e = "NotFound"

\* the except clauses of get_from_gcs: NotFound, then Exception
Caught(e) == e = "NotFound" \/ e \in ExceptionClasses

\* the try block of get_from_gcs: [exc, val]
TryRead(k, fault, t) ==
    LET dl == download_as_text(k, fault) IN
    IF dl.exc # NoFault THEN [exc |-> dl.exc, val |-> None]
    ELSE LET ld == json_loads(dl.val) IN
    IF ld.exc # NoFault THEN [exc |-> ld.exc, val |-> None]
    ELSE LET ea == GetExpiresAt(ld.val) IN
    IF ea.exc # NoFault THEN [exc |-> ea.exc, val |-> None]
    ELSE LET dt == fromisoformat(ea.val) IN
    IF dt.exc # NoFault THEN [exc |-> dt.exc, val |-> None]
    ELSE IF Expired(t, dt.val) THEN [exc |-> NoFault, val |-> None]
    ELSE [exc |-> NoFault, val |-> ld.val]

\* [ret, raised]: what get_from_gcs returns, or the exception leaving it
get_from_gcs(k, fault, t) ==
    LET r == TryRead(k, fault, t) IN
    IF r.exc = NoFault THEN [ret |-> r.val, raised |-> NoFault]
    ELSE IF Caught(r.exc) THEN [ret |-> None, raised |-> NoFault]
    ELSE [ret |-> None, raised |-> r.exc]

\* blob.upload_from_string(json.dumps(data)) under "<paste_id>.json"
save_to_gcs(paste_id, data) == [store EXCEPT ![paste_id] = json_dumps(data)]

----------------------------------------------------------------------------
(* handle_submit *)

\* the test without the strip()
IsEmptyNoStrip(hasEditor, value) == ~hasEditor \/ value = <<>>

\* not editor or not editor.value.strip()
IsEmpty(hasEditor, value) == ~hasEditor \/ strip(value) = <<>>

\* a payload holding the stripped code
PayloadStripped(pid, code, lang, t) ==
    PyDict([id |-> PyStr(pid), code |-> PyStr(strip(code)), lang |-> PyStr(lang),
            expires_at |-> PyStr(isoformat(t + RETENTION_DAYS))])

\* the payload dict; expiry = datetime.now() + timedelta(days=30)
Payload(pid, code, lang, t) ==
    PyDict([id |-> PyStr(pid), code |-> PyStr(code), lang |-> PyStr(lang),
            expires_at |-> PyStr(isoformat(t + RETENTION_DAYS))])

\* pid: the id generated; puts: calls of upload_from_string; upload: the
\* exception the upload raised; notify: the ui.notify type; nav: the id
\* navigated to; raised: the exception leaving the handler
NoRun ==
    [pid |-> NoId, puts |-> 0, upload |-> NoFault, notify |-> "none",
     nav |-> NoId, raised |-> NoFault]

\* an except branch that navigates all the same
OnUploadErrorNavigate(r, e) == [r EXCEPT !.notify = "negative", !.nav = r.pid]

\* the except branch of handle_submit: r is the run so far, e the exception
OnUploadError(r, e) == [r EXCEPT !.notify = "negative"]

\* uuid.uuid4() and the outcome of the upload are chosen inside the handler
handle_submit(c, code, lang) ==
    /\ c \in active_editors
    /\ IF IsEmpty(c \in active_editors, code)
       THEN /\ sub' = [NoRun EXCEPT !.notify = "warning"]
            /\ UNCHANGED <<store, issued>>
       ELSE \E u \in Uuids, fault \in StoreFaults \cup {NoFault} :
               LET pid == ShortId(u)
                   payload == Payload(pid, code, lang, now)
                   tried == [NoRun EXCEPT !.pid = pid, !.puts = 1, !.upload = fault]
               IN IF fault = NoFault
                  THEN /\ store' = save_to_gcs(pid, payload)
                       /\ sub' = [tried EXCEPT !.nav = pid]
                       /\ issued' = issued \cup ({sub'.nav} \ {NoId})
                  ELSE /\ UNCHANGED store
                       /\ sub' = OnUploadError(tried, fault)
                       /\ issued' = issued \cup ({sub'.nav} \ {NoId})
    /\ last' = [op |-> "submit", c |-> c, code |-> code, lang |-> lang]
    /\ UNCHANGED <<now, ticks, active_editors, view, seen>>

----------------------------------------------------------------------------
(* index: builds the page and, through refresh_editor, the client's editor *)

index(c) ==
    /\ c \notin active_editors
    /\ active_editors' = active_editors \cup {c}
    /\ last' = Step("other")
    /\ UNCHANGED <<now, ticks, store, sub, issued, view, seen>>

----------------------------------------------------------------------------
(* view_paste *)

\* id: the paste_id asked for; fault: the failure of the read request; data:
\* what get_from_gcs returned; raised: the exception leaving it; page: the
\* card rendered
NoView ==
    [id |-> NoId, fault |-> NoFault, data |-> None, raised |-> NoFault,
     page |-> "none"]

\* "if data:"
Truthy(data) == data.t = "dict" /\ DOMAIN data.items # {}

\* the view after view_paste(k): get_from_gcs, then the card for its result
Shown(k, fault) ==
    LET r == get_from_gcs(k, fault, now) IN
    [id |-> k, fault |-> fault, data |-> r.ret, raised |-> r.raised,
     page |-> IF r.raised # NoFault THEN "error"
              ELSE IF Truthy(r.ret) THEN "paste" ELSE "not_found"]

\* what the viewers of k have seen: "live" once a paste was shown, "dead"
\* once not-found was shown after that
Seen(k, page) ==
    [seen EXCEPT ![k] = IF page = "paste" THEN "live"
                        ELSE IF @ = "live" THEN "dead" ELSE @]

\* a view_paste that deletes the object it shows as not found
view_paste_evicting(k, fault) ==
    /\ view' = Shown(k, fault)
    /\ seen' = Seen(k, view'.page)
    /\ store' = IF view'.page = "not_found" /\ fault = NoFault
                THEN [store EXCEPT ![k] = Absent] ELSE store
    /\ last' = Step("view")
    /\ UNCHANGED <<now, ticks, active_editors, sub, issued>>

\* fault is the failure of the read request, if any
view_paste(k, fault) ==
    /\ view' = Shown(k, fault)
    /\ seen' = Seen(k, view'.page)
    /\ last' = Step("view")
    /\ UNCHANGED <<now, ticks, store, active_editors, sub, issued>>

----------------------------------------------------------------------------
(* The clock *)

Tick(d) ==
    /\ ticks < MaxTicks
    /\ now' = now + d
    /\ ticks' = ticks + 1
    /\ last' = Step("other")
    /\ UNCHANGED <<store, active_editors, sub, issued, view, seen>>

----------------------------------------------------------------------------
(* Specifications *)

Init ==
    /\ now = 0
    /\ ticks = 0
    /\ store = [k \in Ids |-> Absent]
    /\ active_editors = {}
    /\ sub = NoRun
    /\ issued = {}
    /\ view = NoView
    /\ seen = [k \in Ids |-> "never"]
    /\ last = Step("other")

Submit == \E c \in Clients, code \in CodeInputs, lang \in LangInputs :
             handle_submit(c, code, lang)

Load == \E c \in Clients : index(c)

View == \E k \in Ids, fault \in StoreFaults \cup {NoFault} : view_paste(k, fault)

Clock == \E d \in TickDays : Tick(d)

Next == Submit \/ Load \/ View \/ Clock

Spec == Init /\ [][Next]_vars

\* objects put into the bucket by other means than handle_submit: a text that
\* is not JSON, a JSON array, an object without expires_at, an object whose
\* expires_at is not an ISO date
ForeignObjects ==
    { [t |-> "garbage"],
      [t |-> "array"],
      [t |-> "object", members |-> << [k |-> "code", v |-> [t |-> "string", s |-> <<"x">>]] >>],
      [t |-> "object", members |-> << [k |-> "expires_at", v |-> [t |-> "string", s |-> <<"n", "a">>]] >> ] }

\* the key the foreign object lies under
ForeignKey == <<"a", "1">>

InitForeign ==
    /\ now = 0
    /\ ticks = 0
    /\ \E o \in ForeignObjects :
          store = [j \in Ids |-> IF j = ForeignKey THEN o ELSE Absent]
    /\ active_editors = {}
    /\ sub = NoRun
    /\ issued = {}
    /\ view = NoView
    /\ seen = [k \in Ids |-> "never"]
    /\ last = Step("other")

SpecForeign == InitForeign /\ [][Next]_vars

----------------------------------------------------------------------------
(* Notions the properties are stated in *)

\* the code has no character that is not whitespace
AllWhitespace(code) == \A i \in 1..Len(code) : code[i] \in Whitespace

\* the positions of the members called key in a JSON object
MembersOf(text, key) == { i \in 1..Len(text.members) : text.members[i].k = key }

\* the value of the member called key (the last one, as json.loads keeps it)
MemberOf(text, key) ==
    text.members[CHOOSE i \in MembersOf(text, key) :
                    \A j \in MembersOf(text, key) : j <= i].v

\* the object parses as a record: a JSON object with an ISO expires_at
IsRecord(text) ==
    /\ text.t = "object"
    /\ MembersOf(text, "expires_at") # {}
    /\ MemberOf(text, "expires_at").t = "string"
    /\ IsIso(MemberOf(text, "expires_at").s)

\* an object lies under the key and does not parse as a record
Malformed(text) == text # Absent /\ ~IsRecord(text)

ExpiresAt(text) == ParseDays(MemberOf(text, "expires_at").s)

\* the record as a caller reads it: field name -> characters
Fields(text) ==
    [key \in { text.members[i].k : i \in 1..Len(text.members) } |->
        MemberOf(text, key).s]

\* the fields of a dict that get_from_gcs returned
Returned(data) == [key \in DOMAIN data.items |-> data.items[key].s]

\* the last step was a view_paste whose read request went through
JustRead == last.op = "view" /\ view.fault = NoFault

----------------------------------------------------------------------------
(* C1: a retrieve whose read went through and found a record returns        *)
(* NotFound when now > expires_at and the record when now <= expires_at;    *)
(* at exactly now = expires_at it returns the record.                       *)
C1_ExpiryAtRead ==
    (JustRead /\ IsRecord(store[view.id])) =>
        IF now > ExpiresAt(store[view.id])
        THEN view.data = None /\ view.page = "not_found"
        ELSE /\ view.page = "paste"
             /\ Returned(view.data) = Fields(store[view.id])

\* a retrieve at exactly now = expires_at has just returned the record
C1_Witness ==
    /\ JustRead
    /\ IsRecord(store[view.id])
    /\ now = ExpiresAt(store[view.id])
    /\ view.page = "paste"

\* C1 as claimed: NotFound whenever now >= expires_at, the record only when
\* now < expires_at
C1_Original ==
    (JustRead /\ IsRecord(store[view.id])) =>
        IF now >= ExpiresAt(store[view.id])
        THEN view.data = None
        ELSE view.data # None

(* C2: a retrieve whose read request fails yields an outcome the caller     *)
(* can tell apart from NotFound (None returned, nothing raised).            *)
C2_UnavailableDistinct ==
    (last.op = "view" /\ view.fault \in StoreFaults) =>
        (view.data # None \/ view.raised # NoFault)

(* C3: right after a create that went through, a retrieve of the returned   *)
(* id returns the submitted code (untrimmed) and lang, and an expires_at    *)
(* of the creation time plus 30 days.                                       *)
C3_RoundTrip ==
    (last.op = "submit" /\ sub.nav # NoId) =>
        LET r == get_from_gcs(sub.nav, NoFault, now)
        IN /\ r.raised = NoFault
           /\ r.ret # None
           /\ Returned(r.ret)["code"] = last.code
           /\ Returned(r.ret)["lang"] = last.lang
           /\ Returned(r.ret)["id"] = sub.nav
           /\ fromisoformat(r.ret.items["expires_at"]).val = now + RETENTION_DAYS

\* a padded snippet with a label outside LANG_OPTIONS was created and then
\* retrieved
C3_Witness ==
    /\ JustRead
    /\ view.page = "paste"
    /\ view.id \in issued
    /\ strip(Returned(view.data)["code"]) # Returned(view.data)["code"]
    /\ Returned(view.data)["lang"] \notin LANG_OPTIONS
    /\ ExpiresAt(store[view.id]) = now + RETENTION_DAYS

(* C4: a create that goes through returns an id that no earlier create     *)
(* returned, and leaves the objects of the earlier creates as they were.    *)
C4_DistinctIds ==
    [][(last'.op = "submit" /\ sub'.nav # NoId) =>
          /\ sub'.nav \notin issued
          /\ \A k \in issued : store'[k] = store[k]]_vars

(* C5: the object under a key that has been written is never changed.       *)
C5_WriteOnce ==
    [][\A k \in Ids : store[k] # Absent => store'[k] = store[k]]_vars

(* C6: once a retrieve of an id has returned NotFound after an earlier one  *)
(* returned a record, every later retrieve of the id returns NotFound.      *)
C6_NoWayBack ==
    [][\A k \in Ids :
         (seen[k] = "dead" /\ last'.op = "view" /\ view'.id = k) =>
            view'.page = "not_found"]_vars

(* C7: a create whose code is empty or whitespace only ends in the warning, *)
(* writes nothing to the store and generates and returns no id.             *)
C7_EmptyRejected ==
    [][(last'.op = "submit" /\ AllWhitespace(last'.code)) =>
          /\ store' = store
          /\ sub'.notify = "warning"
          /\ sub'.puts = 0
          /\ sub'.pid = NoId
          /\ sub'.nav = NoId
          /\ issued' = issued]_vars

\* a submit was turned down with the warning
C7_Witness ==
    /\ last.op = "submit"
    /\ last.code # <<>>
    /\ AllWhitespace(last.code)
    /\ sub.notify = "warning"

(* C8: when the upload fails, the create ends in the upload-failed notice,  *)
(* navigates nowhere, has called the upload once, and raises nothing.       *)
C8_UploadFailed ==
    sub.upload # NoFault =>
        /\ sub.notify = "negative"
        /\ sub.nav = NoId
        /\ sub.puts = 1
        /\ sub.raised = NoFault

\* an upload has failed
C8_Witness == last.op = "submit" /\ sub.upload \in StoreFaults /\ sub.pid # NoId

(* C9: a retrieve of a key whose object does not parse as a record returns  *)
(* NotFound and raises nothing.                                             *)
C9_MalformedIsNotFound ==
    (JustRead /\ Malformed(store[view.id])) =>
        /\ view.data = None
        /\ view.raised = NoFault
        /\ view.page = "not_found"

\* a malformed object has just been read
C9_Witness == JustRead /\ Malformed(store[view.id]) /\ view.page = "not_found"

(* C10: no retrieve changes the store; an expired record is still there     *)
(* after the retrieve that returned NotFound for it.                        *)
C10_RetrieveReadsOnly == [][last'.op = "view" => store' = store]_vars

\* NotFound has just been returned for a record that is expired and is
\* still in the store
C10_Witness ==
    /\ JustRead
    /\ view.page = "not_found"
    /\ IsRecord(store[view.id])
    /\ now > ExpiresAt(store[view.id])

====
